---- MODULE Spec2Model ----
(***************************************************************************)
(* Model of createJobHandler                                               *)
(* (packages/angular_devkit/core/src/experimental/jobs/                    *)
(*  create-job-handler.ts).                                                *)
(*                                                                         *)
(* One handler invocation and one subscription of the Observable it        *)
(* returns (one run).  JavaScript runs each callback to completion, so     *)
(* every action below is one callback of the source taken whole: an        *)
(* inbound message handled by the inboundBus callback (lines 76-98), one   *)
(* step of the subscribe function (lines 74-172), one settlement of the    *)
(* job body's promise, one notification of its observable, one call the    *)
(* job body makes on the context it was given.                             *)
(*                                                                         *)
(* rxjs is a library the source imports.  Its objects are modelled by the  *)
(* behaviour the source relies on:                                         *)
(*   - a Subscriber ignores next/error/complete once it is stopped, and    *)
(*     complete/error stop it and run its teardown;                        *)
(*   - a Subject forwards next/error/complete to its observers until it    *)
(*     is stopped and forgets them when it stops;                          *)
(*   - an exception thrown by a next-callback unsubscribes that callback   *)
(*     and is reported to the host, it is not rethrown to the producer.    *)
(***************************************************************************)
EXTENDS Integers, Sequences, FiniteSets, TLC

\* ---------------------------------------------------------------- bounds
MaxOps == 4          \* inbound messages, context calls and stream values of one run
MaxChannelOps == 6   \* context calls of a run that only works on its channels
MaxDecoratorOps == 4 \* inbound messages and job messages of a decorated run
MaxTwoRunOps == 3    \* inbound messages and stream values of two subscriptions

\* ------------------------------------------------------------ input sets
Ids == {1, 2}                \* Ping ids
Vals == {"v1", "v2"}         \* JSON values: results, stream values, inputs
Errs == {"e1"}               \* errors thrown, rejected or signalled
Names == {"a", "b"}          \* channel names
Msgs == {"m1", "m2"}         \* channel messages
Entries == {"log1"}          \* log entries

description == "desc"        \* context.description, line 69

VARIABLES
    pc,            \* position of the subscribe function (lines 74-173)
    subject,       \* the Subscriber handed to the subscribe function, line 74
    inboundSub,    \* the inboundBus callback of line 76 is subscribed
    uncaught,      \* an exception left a callback and was reported to the host
    channels,      \* the Map of line 113, in insertion order
    handles,       \* every channelSubject created at line 123
    result,        \* what fn returned at line 148
    promise,       \* state of the promise fn returned
    subscription,  \* the variable of line 72
    streamSub,     \* the Subscription made at line 157
    source,        \* the job body's stream, as its producer sees it
    emitted,       \* the values the job body's stream has produced
    inputObs,      \* the job body has subscribed to context.input
    received,      \* the values that subscriber has received
    nIn,           \* inbound messages delivered so far
    nBody,         \* context calls made by the job body so far
    stops,         \* Stop messages handled so far
    lastOp,        \* the operation that acted last
    lastArg,       \* the arguments it was given
    budget,        \* the number of operations the run is explored for
    wpc,           \* position of a decorator's handler (lines 189-192, 206-219)
    loader,        \* the promise loader() returned at line 190
    loaderCalls,   \* calls of loader so far
    job,           \* what the decorated handler's run has emitted
    jobpc,         \* the decorated handler: not called, called, subscribed
    outer,         \* the Subscriber of the decorator's returned Observable
    log,           \* the entries given to createLoggerJob's logger
    bus,           \* what context.inboundBus emitted since the handler call
    delivered,     \* what of it reached the decorated handler's subscription
    runs           \* the runs of two subscriptions to one handler call's Observable

vars == <<pc, subject, inboundSub, uncaught, channels, handles, result, promise,
          subscription, streamSub, source, emitted, inputObs, received,
          nIn, nBody, stops, lastOp, lastArg, budget,
          wpc, loader, loaderCalls, job, jobpc, outer, log, bus, delivered, runs>>

\* The state of the decorators of lines 185-221, which createJobHandler's own
\* steps never touch.
decoratorVars == <<wpc, loader, loaderCalls, job, jobpc, outer, log, bus, delivered>>

\* -------------------------------------------------- outbound messages
\* JobOutboundMessage, built as the object literals of the source build them.
StartMsg == [kind |-> "Start", description |-> description]
EndMsg == [kind |-> "End", description |-> description]
PongMsg(id) == [kind |-> "Pong", description |-> description, id |-> id]
LogMsg(entry) == [kind |-> "Log", description |-> description, entry |-> entry]
OutputMsg(value) == [kind |-> "Output", description |-> description, value |-> value]
ChannelMessageMsg(name, message) ==
    [kind |-> "ChannelMessage", description |-> description, name |-> name,
     message |-> message]
ChannelErrorMsg(name, error) ==
    [kind |-> "ChannelError", description |-> description, name |-> name,
     error |-> error]
ChannelCompleteMsg(name) ==
    [kind |-> "ChannelComplete", description |-> description, name |-> name]

\* ------------------------------------------------------ the Subscriber
\* `subject` of line 74: out is what its destination has been handed,
\* status is how it ended, thrownError the error it ended with.
NoError == "none"

NewSubscriber ==
    [out |-> << >>, isStopped |-> FALSE, status |-> "open", thrownError |-> NoError]

\* subject.next(m): dropped once the Subscriber is stopped.
SubjectNext(s, m) ==
    IF s.isStopped THEN s ELSE [s EXCEPT !.out = Append(@, m)]

\* subject.complete()
SubjectComplete(s) ==
    IF s.isStopped THEN s ELSE [s EXCEPT !.isStopped = TRUE, !.status = "completed"]

\* subject.error(e)
SubjectError(s, e) ==
    IF s.isStopped THEN s
    ELSE [s EXCEPT !.isStopped = TRUE, !.status = "errored", !.thrownError = e]

\* ---------------------------------------------------------- channels
\* channels is a JavaScript Map: a sequence of entries in insertion order,
\* each [name, id] with id the index in handles of the channelSubject.
ChannelsHas(chs, name) == \E i \in 1..Len(chs) : chs[i].name = name

ChannelsDelete(chs, name) == SelectSeq(chs, LAMBDA c : c.name # name)

OpenNames == {channels[i].name : i \in 1..Len(channels)}

\* The table exists once line 113 has run.
ChannelsConstructed == pc \in {"body", "running"}

\* The subscriptions of one handler call (lines 68-74), in subscription order.
Runs == {"first", "second"}

\* A subscription that has not been made.
NewRun ==
    [pc |-> "idle", subject |-> NewSubscriber, inboundSub |-> FALSE,
     streamSub |-> "none", source |-> "none", attached |-> FALSE,
     received |-> << >>, produced |-> 0]

\* No decorator's handler has been called.
DecoratorIdle ==
    /\ wpc = "made"
    /\ loader = [state |-> "none", error |-> NoError]
    /\ loaderCalls = 0
    /\ job = NewSubscriber
    /\ jobpc = "none"
    /\ outer = NewSubscriber
    /\ log = << >>
    /\ bus = << >>
    /\ delivered = << >>

Init ==
    /\ pc = "idle"
    /\ subject = NewSubscriber
    /\ inboundSub = FALSE
    /\ uncaught = FALSE
    /\ channels = << >>
    /\ handles = << >>
    /\ result = [kind |-> "none", value |-> "none"]
    /\ promise = "none"
    /\ subscription = "undefined"
    /\ streamSub = "none"
    /\ source = "none"
    /\ emitted = << >>
    /\ inputObs = FALSE
    /\ received = << >>
    /\ nIn = 0
    /\ nBody = 0
    /\ stops = 0
    /\ lastOp = "init"
    /\ lastArg = << >>
    /\ budget = MaxOps
    /\ DecoratorIdle
    /\ runs = [r \in Runs |-> NewRun]

\* The run is explored up to `budget` operations of its environment.
OpsLeft == nIn + nBody + Len(emitted) < budget

\* Lines 74-98: the returned Observable is subscribed; the subscribe function
\* subscribes the inbound callback first.
Subscribe ==
    /\ pc = "idle"
    /\ pc' = "inbound"
    /\ inboundSub' = TRUE
    /\ lastOp' = "Subscribe"
    /\ lastArg' = << >>
    /\ UNCHANGED <<budget, decoratorVars, runs>>
    /\ UNCHANGED <<subject, uncaught, channels, handles, result, promise,
                   subscription, streamSub, source, emitted, inputObs, received,
                   nIn, nBody, stops>>

\* ------------------------------------------------------------------------
\* Inbound messages: the callback of lines 76-98.  The callback is subscribed
\* at line 76, before Start is emitted and before the channel table exists; an
\* inbound source that replays on subscription delivers at pc = "inbound",
\* any source delivers once the subscribe function has returned.
InboundEnabled ==
    /\ inboundSub
    /\ pc \in {"inbound", "running"}
    /\ OpsLeft

\* Mutant: the Pong does not carry the id of the Ping it answers.
PingSubjectFixedId(s, id) == SubjectNext(s, PongMsg(1))

\* Line 79.
PingSubject(s, id) == SubjectNext(s, PongMsg(id))

\* Lines 78-80.
Ping(id) ==
    /\ InboundEnabled
    /\ subject' = PingSubject(subject, id)
    /\ nIn' = nIn + 1
    /\ lastOp' = "Ping"
    /\ lastArg' = <<id>>
    /\ UNCHANGED <<budget, decoratorVars, runs>>
    /\ UNCHANGED <<pc, inboundSub, uncaught, channels, handles, result, promise,
                   subscription, streamSub, source, emitted, inputObs, received,
                   nBody, stops>>

\* Mutant: line 138 forgotten, a completed channel stays in the table.
ChannelSubjectCompleteNoDelete(st, id) ==
    IF st.handles[id].isStopped THEN st
    ELSE [st EXCEPT !.subject = SubjectNext(@, ChannelCompleteMsg(st.handles[id].name)),
                    !.handles[id].isStopped = TRUE]

\* channelSubject.complete() with the complete callback of lines 135-139:
\* st is [subject, channels, handles], id the channelSubject.
ChannelSubjectComplete(st, id) ==
    IF st.handles[id].isStopped THEN st
    ELSE [subject |-> SubjectNext(st.subject, ChannelCompleteMsg(st.handles[id].name)),
          channels |-> ChannelsDelete(st.channels, st.handles[id].name),
          handles |-> [st.handles EXCEPT ![id].isStopped = TRUE]]

\* An error callback that passes the channel's error on to the outbound
\* subject instead of reporting it as a ChannelError message.
ChannelSubjectErrorEscalates(st, id, e) ==
    IF st.handles[id].isStopped THEN st
    ELSE [subject |-> SubjectError(st.subject, e),
          channels |-> ChannelsDelete(st.channels, st.handles[id].name),
          handles |-> [st.handles EXCEPT ![id].isStopped = TRUE]]

\* channelSubject.error(e) with the error callback of lines 130-134.
ChannelSubjectError(st, id, e) ==
    IF st.handles[id].isStopped THEN st
    ELSE [subject |-> SubjectNext(st.subject, ChannelErrorMsg(st.handles[id].name, e)),
          channels |-> ChannelsDelete(st.channels, st.handles[id].name),
          handles |-> [st.handles EXCEPT ![id].isStopped = TRUE]]

\* channelSubject.next(m) with the next callback of lines 125-129.
ChannelSubjectNext(st, id, m) ==
    IF st.handles[id].isStopped THEN st
    ELSE [st EXCEPT !.subject =
              SubjectNext(st.subject, ChannelMessageMsg(st.handles[id].name, m))]

\* Line 91: channels.forEach(x => x.complete()), in insertion order.
RECURSIVE ChannelsForEachComplete(_, _)
ChannelsForEachComplete(entries, st) ==
    IF entries = << >> THEN st
    ELSE ChannelsForEachComplete(Tail(entries),
                                 ChannelSubjectComplete(st, Head(entries).id))

\* subject.complete() and subject.error() unsubscribe the Subscriber, which
\* runs the teardown the subscribe function returned at line 166 (it is
\* registered once the subscribe function has returned).
Teardown(before, after, sub) ==
    IF ~before.isStopped /\ after.isStopped /\ pc = "running" /\ sub = "open"
    THEN "closed" ELSE sub

\* Lines 85-87: if (subscription) subscription.unsubscribe().
StopUnsubscribe ==
    IF subscription # "undefined" /\ streamSub = "open" THEN "closed" ELSE streamSub

\* Mutant: Stop only ends a run whose result is a stream.
StopSubjectOnlyStream(s) ==
    IF subscription = "undefined" THEN s ELSE SubjectComplete(SubjectNext(s, EndMsg))

\* Mutant: line 88 forgotten, the stream completes without End.
StopSubjectNoEnd(s) == SubjectComplete(s)

\* Mutant: line 89 forgotten, End is emitted and the stream is left open.
StopSubjectNoComplete(s) == SubjectNext(s, EndMsg)

\* Lines 88-89.
StopSubject(s) == SubjectComplete(SubjectNext(s, EndMsg))

\* Lines 82-92.
Stop ==
    /\ InboundEnabled
    /\ LET s1 == StopSubject(subject)
           st == ChannelsForEachComplete(channels,               \* line 91
                     [subject |-> s1, channels |-> channels, handles |-> handles])
       IN /\ streamSub' = Teardown(subject, s1, StopUnsubscribe)
          /\ IF ChannelsConstructed
             THEN /\ subject' = st.subject
                  /\ channels' = st.channels
                  /\ handles' = st.handles
                  /\ UNCHANGED <<inboundSub, uncaught>>
             ELSE \* `channels` is read before line 113 has run: the callback
                  \* throws, rxjs unsubscribes it and reports the error.
                  /\ subject' = s1
                  /\ inboundSub' = FALSE
                  /\ uncaught' = TRUE
                  /\ UNCHANGED <<channels, handles>>
    /\ nIn' = nIn + 1
    /\ stops' = stops + 1
    /\ lastOp' = "Stop"
    /\ lastArg' = << >>
    /\ UNCHANGED <<budget, decoratorVars, runs>>
    /\ UNCHANGED <<pc, result, promise, subscription, source, emitted, inputObs,
                   received, nBody>>

\* An input channel that keeps the values nobody was attached for and hands
\* them to the consumer as well.
InputChannelNextBuffered(v) == Append(received, v)

\* Line 95: inputChannel.next(message.value).  inputChannel is a Subject (line
\* 71): only a subscriber attached at that moment receives the value.
InputChannelNext(v) == IF inputObs THEN Append(received, v) ELSE received

\* Lines 94-96.
Input(v) ==
    /\ InboundEnabled
    /\ received' = InputChannelNext(v)
    /\ nIn' = nIn + 1
    /\ lastOp' = "Input"
    /\ lastArg' = <<v>>
    /\ UNCHANGED <<budget, decoratorVars, runs>>
    /\ UNCHANGED <<pc, subject, inboundSub, uncaught, channels, handles, result,
                   promise, subscription, streamSub, source, emitted, inputObs,
                   nBody, stops>>

\* ------------------------------------------------------------------------
\* Lines 100-146: the logger is made, Start is emitted, the channel table and
\* the context are built; fn is then entered (line 148).
StartRun ==
    /\ pc = "inbound"
    /\ pc' = "body"
    /\ subject' = SubjectNext(subject, StartMsg)
    /\ channels' = << >>
    /\ lastOp' = "StartRun"
    /\ lastArg' = << >>
    /\ UNCHANGED <<budget, decoratorVars, runs>>
    /\ UNCHANGED <<inboundSub, uncaught, handles, result, promise, subscription,
                   streamSub, source, emitted, inputObs, received, nIn, nBody, stops>>

\* ------------------------------------------------------------------------
\* Calls the job body makes on the context: while fn runs (pc = "body") and,
\* for a body that goes on asynchronously, after fn has returned.
BodyEnabled ==
    /\ pc \in {"body", "running"}
    /\ OpsLeft

\* JSON.stringify(x) (lines 27, 208, 213 and 214): the JSON text of x, which
\* is not x itself; the text of the string a is "a", quoted and escaped.
JSONStringify(x) == [json |-> x]

\* Lines 25-29: the exception createChannel throws; its message is the
\* template string of line 27, kept as its parts, with the JSON text of the
\* channel's name.
ChannelAlreadyExistException(name) ==
    [exception |-> "ChannelAlreadyExistException",
     message |-> <<"Channel ", JSONStringify(name), " already exist.">>]

\* createChannel without the check of lines 120-122: the table entry of an open
\* name is silently replaced.
createChannelReplace(name) ==
    /\ BodyEnabled
    /\ handles' = Append(handles, [name |-> name, isStopped |-> FALSE])
    /\ channels' = Append(ChannelsDelete(channels, name),
                          [name |-> name, id |-> Len(handles) + 1])
    /\ lastOp' = "createChannel"
    /\ lastArg' = <<name>>
    /\ UNCHANGED <<budget, decoratorVars, runs>>
    /\ nBody' = nBody + 1
    /\ UNCHANGED <<pc, subject, inboundSub, uncaught, result, promise, subscription,
                   streamSub, source, emitted, inputObs, received, nIn, stops>>

\* Lines 119-145.
createChannel(name) ==
    /\ BodyEnabled
    /\ IF ChannelsHas(channels, name)
       THEN \* lines 120-122: ChannelAlreadyExistException, thrown to the body
            /\ lastOp' = "createChannelThrow"
            /\ lastArg' = <<name, ChannelAlreadyExistException(name)>>
            /\ UNCHANGED <<budget, decoratorVars, runs>>
            /\ UNCHANGED <<channels, handles>>
       ELSE /\ handles' = Append(handles, [name |-> name, isStopped |-> FALSE])
            /\ channels' = Append(channels, [name |-> name, id |-> Len(handles) + 1])
            /\ lastOp' = "createChannel"
            /\ lastArg' = <<name>>
            /\ UNCHANGED <<budget, decoratorVars, runs>>
    /\ nBody' = nBody + 1
    /\ UNCHANGED <<pc, subject, inboundSub, uncaught, result, promise, subscription,
                   streamSub, source, emitted, inputObs, received, nIn, stops>>

\* The job body calls next/complete/error on a handle createChannel returned.
HandleStep(st, op, arg) ==
    /\ BodyEnabled
    /\ subject' = st.subject
    /\ channels' = st.channels
    /\ handles' = st.handles
    /\ nBody' = nBody + 1
    /\ lastOp' = op
    /\ lastArg' = arg
    /\ UNCHANGED <<budget, decoratorVars, runs>>
    /\ UNCHANGED <<pc, inboundSub, uncaught, result, promise, subscription,
                   streamSub, source, emitted, inputObs, received, nIn, stops>>

Current == [subject |-> subject, channels |-> channels, handles |-> handles]

ChannelNext(id, m) ==
    HandleStep(ChannelSubjectNext(Current, id, m), "ChannelNext", <<id, m>>)

ChannelComplete(id) ==
    HandleStep(ChannelSubjectComplete(Current, id), "ChannelComplete", <<id>>)

ChannelError(id, e) ==
    HandleStep(ChannelSubjectError(Current, id, e), "ChannelError", <<id, e>>)

\* Lines 101-108: an entry logged on context.logger.
LogEntry(entry) ==
    /\ BodyEnabled
    /\ subject' = SubjectNext(subject, LogMsg(entry))
    /\ nBody' = nBody + 1
    /\ lastOp' = "LogEntry"
    /\ lastArg' = <<entry>>
    /\ UNCHANGED <<budget, decoratorVars, runs>>
    /\ UNCHANGED <<pc, inboundSub, uncaught, channels, handles, result, promise,
                   subscription, streamSub, source, emitted, inputObs, received,
                   nIn, stops>>

\* Line 117: the job body subscribes to context.input.
InputSubscribe ==
    /\ BodyEnabled
    /\ ~inputObs
    /\ inputObs' = TRUE
    /\ nBody' = nBody + 1
    /\ lastOp' = "InputSubscribe"
    /\ lastArg' = << >>
    /\ UNCHANGED <<budget, decoratorVars, runs>>
    /\ UNCHANGED <<pc, subject, inboundSub, uncaught, channels, handles, result,
                   promise, subscription, streamSub, source, emitted, received,
                   nIn, stops>>

\* ------------------------------------------------------------------------
\* Lines 148-172: fn returns and the result is dispatched on its shape.

\* Mutant: lines 169 and 170 swapped, End is emitted before the value.
ScalarSubjectEndFirst(s, v) ==
    SubjectComplete(SubjectNext(SubjectNext(s, EndMsg), OutputMsg(v)))

\* Lines 169-171.
ScalarSubject(s, v) ==
    SubjectComplete(SubjectNext(SubjectNext(s, OutputMsg(v)), EndMsg))

\* Lines 167-172.
ReturnScalar(v) ==
    /\ pc = "body"
    /\ pc' = "running"
    /\ result' = [kind |-> "scalar", value |-> v]
    /\ subject' = ScalarSubject(subject, v)
    /\ lastOp' = "ReturnScalar"
    /\ lastArg' = <<v>>
    /\ UNCHANGED <<budget, decoratorVars, runs>>
    /\ UNCHANGED <<inboundSub, uncaught, channels, handles, promise, subscription,
                   streamSub, source, emitted, inputObs, received, nIn, nBody, stops>>

\* Lines 150-155: the callbacks are registered, the promise is pending.
ReturnPromise ==
    /\ pc = "body"
    /\ pc' = "running"
    /\ result' = [kind |-> "promise", value |-> "none"]
    /\ promise' = "pending"
    /\ lastOp' = "ReturnPromise"
    /\ lastArg' = << >>
    /\ UNCHANGED <<budget, decoratorVars, runs>>
    /\ UNCHANGED <<subject, inboundSub, uncaught, channels, handles, subscription,
                   streamSub, source, emitted, inputObs, received, nIn, nBody, stops>>

\* Lines 156-166: the stream is subscribed and the Subscription is returned as
\* the teardown; rxjs unsubscribes a teardown added to a Subscriber that is
\* already stopped.
ReturnStream ==
    /\ pc = "body"
    /\ pc' = "running"
    /\ result' = [kind |-> "stream", value |-> "none"]
    /\ subscription' = "set"
    /\ streamSub' = IF subject.isStopped THEN "closed" ELSE "open"
    /\ source' = "active"
    /\ lastOp' = "ReturnStream"
    /\ lastArg' = << >>
    /\ UNCHANGED <<budget, decoratorVars, runs>>
    /\ UNCHANGED <<subject, inboundSub, uncaught, channels, handles, promise,
                   emitted, inputObs, received, nIn, nBody, stops>>

\* Line 148: fn throws; rxjs catches what the subscribe function throws and
\* hands it to subject.error.
BodyThrow(e) ==
    /\ pc = "body"
    /\ pc' = "running"
    /\ result' = [kind |-> "thrown", value |-> e]
    /\ subject' = SubjectError(subject, e)
    /\ lastOp' = "BodyThrow"
    /\ lastArg' = <<e>>
    /\ UNCHANGED <<budget, decoratorVars, runs>>
    /\ UNCHANGED <<inboundSub, uncaught, channels, handles, promise, subscription,
                   streamSub, source, emitted, inputObs, received, nIn, nBody, stops>>

\* Lines 152-154.
PromiseResolved(s, v) ==
    SubjectComplete(SubjectNext(SubjectNext(s, OutputMsg(v)), EndMsg))

\* Mutant: the rejection is reported as a normal end of the run.
PromiseRejectedAsEnd(s, e) == SubjectComplete(SubjectNext(s, EndMsg))

\* Line 155.
PromiseRejected(s, e) == SubjectError(s, e)

\* Lines 151-154: the promise resolves.
PromiseResolve(v) ==
    /\ promise = "pending"
    /\ promise' = "resolved"
    /\ result' = [result EXCEPT !.value = v]
    /\ subject' = PromiseResolved(subject, v)
    /\ lastOp' = "PromiseResolve"
    /\ lastArg' = <<v>>
    /\ UNCHANGED <<budget, decoratorVars, runs>>
    /\ UNCHANGED <<pc, inboundSub, uncaught, channels, handles, subscription,
                   streamSub, source, emitted, inputObs, received, nIn, nBody, stops>>

\* Line 155: the promise rejects.
PromiseReject(e) ==
    /\ promise = "pending"
    /\ promise' = "rejected"
    /\ result' = [result EXCEPT !.value = e]
    /\ subject' = PromiseRejected(subject, e)
    /\ lastOp' = "PromiseReject"
    /\ lastArg' = <<e>>
    /\ UNCHANGED <<budget, decoratorVars, runs>>
    /\ UNCHANGED <<pc, inboundSub, uncaught, channels, handles, subscription,
                   streamSub, source, emitted, inputObs, received, nIn, nBody, stops>>

\* Line 158.
StreamValue(s, v) == SubjectNext(s, OutputMsg(v))

\* Mutant: the stream's failure is announced with an End before it is raised.
StreamErroredWithEnd(s, e) == SubjectError(SubjectNext(s, EndMsg), e)

\* Line 159.
StreamErrored(s, e) == SubjectError(s, e)

\* Mutant: line 161 forgotten, the stream completes without End.
StreamCompletedNoEnd(s) == SubjectComplete(s)

\* Lines 160-163.
StreamCompleted(s) == SubjectComplete(SubjectNext(s, EndMsg))

\* Line 158: the stream produces a value.  A producer may go on after it was
\* unsubscribed; the closed Subscription drops what it produces.
StreamNext(v) ==
    /\ source = "active"
    /\ OpsLeft
    /\ emitted' = Append(emitted, v)
    /\ subject' = IF streamSub = "open" THEN StreamValue(subject, v) ELSE subject
    /\ lastOp' = "StreamNext"
    /\ lastArg' = <<v>>
    /\ UNCHANGED <<budget, decoratorVars, runs>>
    /\ UNCHANGED <<pc, inboundSub, uncaught, channels, handles, result, promise,
                   subscription, streamSub, source, inputObs, received, nIn, nBody,
                   stops>>

\* Lines 160-163: the stream completes.
StreamComplete ==
    /\ source = "active"
    /\ source' = "completed"
    /\ subject' = IF streamSub = "open" THEN StreamCompleted(subject) ELSE subject
    /\ streamSub' = "closed"
    /\ lastOp' = "StreamComplete"
    /\ lastArg' = << >>
    /\ UNCHANGED <<budget, decoratorVars, runs>>
    /\ UNCHANGED <<pc, inboundSub, uncaught, channels, handles, result, promise,
                   subscription, emitted, inputObs, received, nIn, nBody, stops>>

\* Line 159: the stream fails.
StreamError(e) ==
    /\ source = "active"
    /\ source' = "errored"
    /\ result' = [result EXCEPT !.value = e]
    /\ subject' = IF streamSub = "open" THEN StreamErrored(subject, e) ELSE subject
    /\ streamSub' = "closed"
    /\ lastOp' = "StreamError"
    /\ lastArg' = <<e>>
    /\ UNCHANGED <<budget, decoratorVars, runs>>
    /\ UNCHANGED <<pc, inboundSub, uncaught, channels, handles, promise,
                   subscription, emitted, inputObs, received, nIn, nBody, stops>>

Next ==
    \/ Subscribe
    \/ \E id \in Ids : Ping(id)
    \/ Stop
    \/ \E v \in Vals : Input(v)
    \/ StartRun
    \/ \E name \in Names : createChannel(name)
    \/ \E id \in 1..Len(handles), m \in Msgs : ChannelNext(id, m)
    \/ \E id \in 1..Len(handles) : ChannelComplete(id)
    \/ \E id \in 1..Len(handles), e \in Errs : ChannelError(id, e)
    \/ \E entry \in Entries : LogEntry(entry)
    \/ InputSubscribe
    \/ \E v \in Vals : ReturnScalar(v)
    \/ ReturnPromise
    \/ ReturnStream
    \/ \E e \in Errs : BodyThrow(e)
    \/ \E v \in Vals : PromiseResolve(v)
    \/ \E e \in Errs : PromiseReject(e)
    \/ \E v \in Vals : StreamNext(v)
    \/ StreamComplete
    \/ \E e \in Errs : StreamError(e)

Spec == Init /\ [][Next]_vars

\* ------------------------------------------------------------------------
\* A run whose job body has returned a pending promise and from then on only
\* works on its channels: the state Subscribe, StartRun and ReturnPromise
\* lead to, explored for MaxChannelOps context calls and the promise's
\* resolution.
InitChannels ==
    /\ pc = "running"
    /\ subject = SubjectNext(NewSubscriber, StartMsg)
    /\ inboundSub = TRUE
    /\ uncaught = FALSE
    /\ channels = << >>
    /\ handles = << >>
    /\ result = [kind |-> "promise", value |-> "none"]
    /\ promise = "pending"
    /\ subscription = "undefined"
    /\ streamSub = "none"
    /\ source = "none"
    /\ emitted = << >>
    /\ inputObs = FALSE
    /\ received = << >>
    /\ nIn = 0
    /\ nBody = 0
    /\ stops = 0
    /\ lastOp = "ReturnPromise"
    /\ lastArg = << >>
    /\ budget = MaxChannelOps
    /\ DecoratorIdle
    /\ runs = [r \in Runs |-> NewRun]

NextChannels ==
    \/ \E name \in Names : createChannel(name)
    \/ \E id \in 1..Len(handles), m \in Msgs : ChannelNext(id, m)
    \/ \E id \in 1..Len(handles) : ChannelComplete(id)
    \/ \E id \in 1..Len(handles), e \in Errs : ChannelError(id, e)
    \/ \E v \in Vals : PromiseResolve(v)

SpecChannels == InitChannels /\ [][NextChannels]_vars

\* ------------------------------------------------------------------------
\* Lines 202-221: createLoggerJob(job, logger).  The decorated job is any
\* handler: its run is the sequence of notifications its Observable gives.

\* JobInboundMessage, the kinds of lines 78, 82 and 94.
PingMsg(id) == [kind |-> "Ping", id |-> id]
StopMsg == [kind |-> "Stop"]
InputMsg(value) == [kind |-> "Input", value |-> value]

InboundMsgs == {PingMsg(1), StopMsg, InputMsg("v1")}
JobMsgs == {StartMsg, OutputMsg("v1"), EndMsg}

\* createJobHandler's own state, which the decorators' steps never touch.
runVars == <<pc, subject, inboundSub, uncaught, channels, handles, result, promise,
             subscription, streamSub, source, emitted, inputObs, received,
             nIn, nBody, stops, runs>>

DecoratorOpsLeft == Len(bus) + Len(job.out) < budget

\* logger.info(text) and logger.warn(text); text is a template string, kept
\* as its parts.
LoggerInfo(text) == [level |-> "info", message |-> text]
LoggerWarn(text) == [level |-> "warn", message |-> text]

\* Line 208: the tap on context.inboundBus.
TapInbound(entries, message) ==
    Append(entries, LoggerInfo(<<"Input: ", JSONStringify(message)>>))

\* Line 213: the tap's next callback; tap then passes the message on.
TapNext(st, message) ==
    [log |-> Append(st.log, LoggerInfo(<<"Message: ", JSONStringify(message)>>)),
     outer |-> SubjectNext(st.outer, message)]

\* A tap that logs the error and ends the stream normally.
TapErrorCompletes(st, error) ==
    [log |-> Append(st.log, LoggerWarn(<<"Error: ", JSONStringify(error)>>)),
     outer |-> SubjectComplete(st.outer)]

\* Line 214: the tap's error callback; tap then passes the error on.
TapError(st, error) ==
    [log |-> Append(st.log, LoggerWarn(<<"Error: ", JSONStringify(error)>>)),
     outer |-> SubjectError(st.outer, error)]

\* Line 215: the tap's complete callback; tap then passes the completion on.
TapComplete(st) ==
    [log |-> Append(st.log, LoggerInfo(<<"Completed">>)),
     outer |-> SubjectComplete(st.outer)]

Tapped == [log |-> log, outer |-> outer]

\* Lines 206-219: the handler is called.  It subscribes the inbound tap
\* (lines 207-209) and calls job(argument, context) (line 211).
LoggerInvoke ==
    /\ wpc = "made"
    /\ wpc' = "invoked"
    /\ jobpc' = "called"
    /\ lastOp' = "LoggerInvoke"
    /\ lastArg' = << >>
    /\ UNCHANGED <<runVars, budget, loader, loaderCalls, job, outer, log, bus,
                   delivered>>

\* The returned Observable is subscribed: tap subscribes the job's Observable.
LoggerSubscribe ==
    /\ wpc = "invoked"
    /\ wpc' = "subscribed"
    /\ jobpc' = "subscribed"
    /\ lastOp' = "LoggerSubscribe"
    /\ lastArg' = << >>
    /\ UNCHANGED <<runVars, budget, loader, loaderCalls, job, outer, log, bus,
                   delivered>>

\* context.inboundBus emits: the tap of line 208, subscribed first, logs the
\* message, and the job's own subscription to the same bus receives it.
LoggerInbound(message) ==
    /\ wpc # "made"
    /\ DecoratorOpsLeft
    /\ bus' = Append(bus, message)
    /\ log' = TapInbound(log, message)
    /\ delivered' = IF jobpc = "subscribed" THEN Append(delivered, message)
                    ELSE delivered
    /\ lastOp' = "LoggerInbound"
    /\ lastArg' = <<message>>
    /\ UNCHANGED <<runVars, budget, wpc, loader, loaderCalls, job, jobpc, outer>>

\* The job's Observable gives a notification, which passes through the tap of
\* lines 211-217.
LoggerJobStep(inner, st, op, arg) ==
    /\ jobpc = "subscribed"
    /\ ~job.isStopped
    /\ job' = inner
    /\ log' = st.log
    /\ outer' = st.outer
    /\ lastOp' = op
    /\ lastArg' = arg
    /\ UNCHANGED <<runVars, budget, wpc, loader, loaderCalls, jobpc, bus, delivered>>

LoggerJobNext(message) ==
    /\ DecoratorOpsLeft
    /\ LoggerJobStep(SubjectNext(job, message), TapNext(Tapped, message),
                     "LoggerJobNext", <<message>>)

LoggerJobError(error) ==
    LoggerJobStep(SubjectError(job, error), TapError(Tapped, error),
                  "LoggerJobError", <<error>>)

LoggerJobComplete ==
    LoggerJobStep(SubjectComplete(job), TapComplete(Tapped),
                  "LoggerJobComplete", << >>)

\* createJobHandler's own state where no handler of it is run.
RunIdle ==
    /\ pc = "idle"
    /\ subject = NewSubscriber
    /\ inboundSub = FALSE
    /\ uncaught = FALSE
    /\ channels = << >>
    /\ handles = << >>
    /\ result = [kind |-> "none", value |-> "none"]
    /\ promise = "none"
    /\ subscription = "undefined"
    /\ streamSub = "none"
    /\ source = "none"
    /\ emitted = << >>
    /\ inputObs = FALSE
    /\ received = << >>
    /\ nIn = 0
    /\ nBody = 0
    /\ stops = 0
    /\ runs = [r \in Runs |-> NewRun]

InitLogger ==
    /\ RunIdle
    /\ lastOp = "init"
    /\ lastArg = << >>
    /\ budget = MaxDecoratorOps
    /\ DecoratorIdle

NextLogger ==
    \/ LoggerInvoke
    \/ LoggerSubscribe
    \/ \E message \in InboundMsgs : LoggerInbound(message)
    \/ \E message \in JobMsgs : LoggerJobNext(message)
    \/ \E error \in Errs : LoggerJobError(error)
    \/ LoggerJobComplete

SpecLogger == InitLogger /\ [][NextLogger]_vars

\* ------------------------------------------------------------------------
\* Lines 185-195: createJobFactory(loader, options).  The loaded handler is
\* any handler: its run is the sequence of notifications its Observable gives.

\* from(promise) on a rejected promise that ends the stream with End.
FromRejectedAsEnd(s, error) == SubjectComplete(SubjectNext(s, EndMsg))

\* Line 190: from(loader()) when the promise is rejected; switchMap passes the
\* error on.
FromRejected(s, error) == SubjectError(s, error)

\* Lines 189-192: the handler is called; loader() is called at once (line 190).
FactoryInvoke ==
    /\ wpc = "made"
    /\ wpc' = "invoked"
    /\ loaderCalls' = loaderCalls + 1
    /\ loader' = [state |-> "pending", error |-> NoError]
    /\ lastOp' = "FactoryInvoke"
    /\ lastArg' = << >>
    /\ UNCHANGED <<runVars, budget, job, jobpc, outer, log, bus, delivered>>

\* The promise loader() returned is fulfilled with a handler.
LoaderResolve ==
    /\ loader.state = "pending"
    /\ loader' = [state |-> "resolved", error |-> NoError]
    /\ lastOp' = "LoaderResolve"
    /\ lastArg' = << >>
    /\ UNCHANGED <<runVars, budget, wpc, loaderCalls, job, jobpc, outer, log, bus,
                   delivered>>

\* The promise loader() returned is rejected.
LoaderReject(error) ==
    /\ loader.state = "pending"
    /\ loader' = [state |-> "rejected", error |-> error]
    /\ lastOp' = "LoaderReject"
    /\ lastArg' = <<error>>
    /\ UNCHANGED <<runVars, budget, wpc, loaderCalls, job, jobpc, outer, log, bus,
                   delivered>>

\* The returned Observable is subscribed: from() attaches to the promise.
FactorySubscribe ==
    /\ wpc = "invoked"
    /\ wpc' = "subscribed"
    /\ lastOp' = "FactorySubscribe"
    /\ lastArg' = << >>
    /\ UNCHANGED <<runVars, budget, loader, loaderCalls, job, jobpc, outer, log, bus,
                   delivered>>

\* Line 191: the promise's handler reaches switchMap, which calls
\* fn(argument, context) and subscribes what it returns.
FactoryLoaded ==
    /\ wpc = "subscribed"
    /\ loader.state = "resolved"
    /\ jobpc = "none"
    /\ jobpc' = "subscribed"
    /\ lastOp' = "FactoryLoaded"
    /\ lastArg' = << >>
    /\ UNCHANGED <<runVars, budget, wpc, loader, loaderCalls, job, outer, log, bus,
                   delivered>>

\* Line 190: the promise's rejection reaches the subscriber.
FactoryFailed ==
    /\ wpc = "subscribed"
    /\ loader.state = "rejected"
    /\ ~outer.isStopped
    /\ outer' = FromRejected(outer, loader.error)
    /\ lastOp' = "FactoryFailed"
    /\ lastArg' = << >>
    /\ UNCHANGED <<runVars, budget, wpc, loader, loaderCalls, job, jobpc, log, bus,
                   delivered>>

\* The loaded handler's Observable gives a notification, which switchMap
\* passes on; the promise's stream has completed, so the handler's completion
\* completes the whole.
FactoryJobStep(inner, s, op, arg) ==
    /\ jobpc = "subscribed"
    /\ ~job.isStopped
    /\ job' = inner
    /\ outer' = s
    /\ lastOp' = op
    /\ lastArg' = arg
    /\ UNCHANGED <<runVars, budget, wpc, loader, loaderCalls, jobpc, log, bus,
                   delivered>>

FactoryJobNext(message) ==
    /\ DecoratorOpsLeft
    /\ FactoryJobStep(SubjectNext(job, message), SubjectNext(outer, message),
                      "FactoryJobNext", <<message>>)

FactoryJobError(error) ==
    FactoryJobStep(SubjectError(job, error), SubjectError(outer, error),
                   "FactoryJobError", <<error>>)

FactoryJobComplete ==
    FactoryJobStep(SubjectComplete(job), SubjectComplete(outer),
                   "FactoryJobComplete", << >>)

InitFactory ==
    /\ RunIdle
    /\ lastOp = "init"
    /\ lastArg = << >>
    /\ budget = MaxDecoratorOps
    /\ DecoratorIdle

NextFactory ==
    \/ FactoryInvoke
    \/ LoaderResolve
    \/ \E error \in Errs : LoaderReject(error)
    \/ FactorySubscribe
    \/ FactoryLoaded
    \/ FactoryFailed
    \/ \E message \in JobMsgs : FactoryJobNext(message)
    \/ \E error \in Errs : FactoryJobError(error)
    \/ FactoryJobComplete

SpecFactory == InitFactory /\ [][NextFactory]_vars

\* ------------------------------------------------------------------------
\* Lines 68-74: the Observable a handler call returns is subscribed twice.
\* The subscribe function runs once per subscription, with its own subject,
\* inbound callback, channel table and job body, whereas inputChannel (line
\* 71) and `subscription` (line 72) belong to the handler call.  The job body
\* returns a stream of its own at each call; the inbound source delivers
\* between the subscription steps, to the callbacks in subscription order.

TwoRunsOpsLeft == nIn + runs["first"].produced + runs["second"].produced < budget

HandlerState == [runs |-> runs, subscription |-> subscription]

\* Lines 74-166 with a stream as the job body's result: the inbound callback
\* is subscribed (line 76), Start is emitted (line 111), the job body runs and
\* may attach to context.input, and the Subscription to its stream is stored
\* in the handler call's variable (line 157).
TwoSubscribe(r, attach) ==
    /\ runs[r].pc = "idle"
    /\ r = "second" => runs["first"].pc # "idle"
    /\ runs' = [runs EXCEPT ![r] =
                   [pc |-> "running", subject |-> SubjectNext(NewSubscriber, StartMsg),
                    inboundSub |-> TRUE, streamSub |-> "open", source |-> "active",
                    attached |-> attach, received |-> << >>, produced |-> 0]]
    /\ subscription' = r
    /\ lastOp' = "Subscribe"
    /\ lastArg' = <<r, attach>>
    /\ UNCHANGED <<budget, decoratorVars>>
    /\ UNCHANGED <<pc, subject, inboundSub, uncaught, channels, handles, result,
                   promise, streamSub, source, emitted, inputObs, received, nIn,
                   nBody, stops>>

\* subject.complete() and subject.error() unsubscribe the run's Subscriber,
\* which runs the teardown returned at line 166: the run's own Subscription.
RunTeardown(before, after, sub) ==
    IF ~before.isStopped /\ after.isStopped THEN "closed" ELSE sub

\* A Stop callback that unsubscribes nothing but what `subscription` holds:
\* the subscribe function returns no teardown.
StopCallbackNoTeardown(st, r) ==
    IF ~st.runs[r].inboundSub THEN st
    ELSE LET unsub == IF st.subscription = "undefined" THEN st.runs
                      ELSE [st.runs EXCEPT ![st.subscription].streamSub = "closed"]
         IN [st EXCEPT !.runs =
                [unsub EXCEPT ![r].subject = StopSubject(unsub[r].subject)]]

\* Lines 82-92 in the callback of run r: `subscription`, whichever run stored
\* it last, is unsubscribed (lines 85-87), then End and complete (lines 88-89).
StopCallback(st, r) ==
    IF ~st.runs[r].inboundSub THEN st
    ELSE LET unsub == IF st.subscription = "undefined" THEN st.runs
                      ELSE [st.runs EXCEPT ![st.subscription].streamSub = "closed"]
             s0 == unsub[r].subject
             s1 == StopSubject(s0)
         IN [st EXCEPT !.runs =
                [unsub EXCEPT ![r].subject = s1,
                              ![r].streamSub = RunTeardown(s0, s1, unsub[r].streamSub)]]

\* The inbound source delivers Stop to every subscribed callback.
TwoStop ==
    /\ \E r \in Runs : runs[r].inboundSub
    /\ TwoRunsOpsLeft
    /\ runs' = StopCallback(StopCallback(HandlerState, "first"), "second").runs
    /\ nIn' = nIn + 1
    /\ stops' = stops + 1
    /\ lastOp' = "Stop"
    /\ lastArg' = << >>
    /\ UNCHANGED <<budget, decoratorVars>>
    /\ UNCHANGED <<pc, subject, inboundSub, uncaught, channels, handles, result,
                   promise, subscription, streamSub, source, emitted, inputObs,
                   received, nBody>>

\* Lines 94-96 in the callback of run r: inputChannel.next(value) reaches every
\* consumer attached to the handler call's inputChannel.
InputCallback(rs, r, v) ==
    IF ~rs[r].inboundSub THEN rs
    ELSE [q \in Runs |-> IF rs[q].attached
                         THEN [rs[q] EXCEPT !.received = Append(@, v)]
                         ELSE rs[q]]

\* The inbound source delivers Input{v} to every subscribed callback.
TwoInput(v) ==
    /\ \E r \in Runs : runs[r].inboundSub
    /\ TwoRunsOpsLeft
    /\ runs' = InputCallback(InputCallback(runs, "first", v), "second", v)
    /\ nIn' = nIn + 1
    /\ lastOp' = "Input"
    /\ lastArg' = <<v>>
    /\ UNCHANGED <<budget, decoratorVars>>
    /\ UNCHANGED <<pc, subject, inboundSub, uncaught, channels, handles, result,
                   promise, subscription, streamSub, source, emitted, inputObs,
                   received, nBody, stops>>

\* Lines 78-80 in the callback of run r.
PingCallback(rs, r, id) ==
    IF ~rs[r].inboundSub THEN rs
    ELSE [rs EXCEPT ![r].subject = PingSubject(@, id)]

\* The inbound source delivers Ping{id} to every subscribed callback.
TwoPing(id) ==
    /\ \E r \in Runs : runs[r].inboundSub
    /\ TwoRunsOpsLeft
    /\ runs' = PingCallback(PingCallback(runs, "first", id), "second", id)
    /\ nIn' = nIn + 1
    /\ lastOp' = "Ping"
    /\ lastArg' = <<id>>
    /\ UNCHANGED <<budget, decoratorVars>>
    /\ UNCHANGED <<pc, subject, inboundSub, uncaught, channels, handles, result,
                   promise, subscription, streamSub, source, emitted, inputObs,
                   received, nBody, stops>>

\* The stream of run r gives a notification to the callbacks of lines 158-163,
\* unless its Subscription is closed.
TwoStreamStep(r, run, op, arg) ==
    /\ runs[r].source = "active"
    /\ runs' = [runs EXCEPT ![r] = run]
    /\ lastOp' = op
    /\ lastArg' = arg
    /\ UNCHANGED <<budget, decoratorVars>>
    /\ UNCHANGED <<pc, subject, inboundSub, uncaught, channels, handles, result,
                   promise, subscription, streamSub, source, emitted, inputObs,
                   received, nIn, nBody, stops>>

TwoStreamNext(r, v) ==
    /\ TwoRunsOpsLeft
    /\ TwoStreamStep(r, [runs[r] EXCEPT
                            !.produced = @ + 1,
                            !.subject = IF runs[r].streamSub = "open"
                                        THEN StreamValue(@, v) ELSE @],
                     "StreamNext", <<r, v>>)

TwoStreamComplete(r) ==
    TwoStreamStep(r, [runs[r] EXCEPT
                         !.source = "completed",
                         !.subject = IF runs[r].streamSub = "open"
                                     THEN StreamCompleted(@) ELSE @,
                         !.streamSub = "closed"],
                  "StreamComplete", <<r>>)

TwoStreamError(r, e) ==
    TwoStreamStep(r, [runs[r] EXCEPT
                         !.source = "errored",
                         !.subject = IF runs[r].streamSub = "open"
                                     THEN StreamErrored(@, e) ELSE @,
                         !.streamSub = "closed"],
                  "StreamError", <<r, e>>)

InitTwoRuns ==
    /\ RunIdle
    /\ lastOp = "init"
    /\ lastArg = << >>
    /\ budget = MaxTwoRunOps
    /\ DecoratorIdle

NextTwoRuns ==
    \/ \E r \in Runs, attach \in BOOLEAN : TwoSubscribe(r, attach)
    \/ TwoStop
    \/ \E v \in Vals : TwoInput(v)
    \/ \E id \in Ids : TwoPing(id)
    \/ \E r \in Runs, v \in Vals : TwoStreamNext(r, v)
    \/ \E r \in Runs : TwoStreamComplete(r)
    \/ \E r \in Runs, e \in Errs : TwoStreamError(r, e)

SpecTwoRuns == InitTwoRuns /\ [][NextTwoRuns]_vars

\* ========================================================================
\* Properties
\* ========================================================================
out == subject.out

CountKind(seq, k) == Cardinality({i \in 1..Len(seq) : seq[i].kind = k})

BodyKinds == {"Output", "Log", "ChannelMessage", "ChannelError", "ChannelComplete"}

\* The subscribe function has passed line 111.
Started == pc \in {"body", "running"}

\* The terminal event of the run has happened: End was emitted or the stream
\* failed.
Terminated == CountKind(out, "End") > 0 \/ subject.status = "errored"

\* C1: in a run, exactly one Start is emitted, and it is emitted before any
\* Output, Log, ChannelMessage, ChannelError or ChannelComplete of the run,
\* whatever the interleaving of inbound messages, job-body emissions and
\* channel pushes.  (Stated as the claim states it; the code violates it when
\* the inbound source delivers a Stop while the subscribe function is still
\* subscribing it, see C19.)
C1_ExactlyOneStartFirst ==
    /\ CountKind(out, "Start") = (IF Started THEN 1 ELSE 0)
    /\ \A i \in 1..Len(out) :
          out[i].kind \in BodyKinds => \E j \in 1..(i - 1) : out[j].kind = "Start"

\* C2: at most one terminal event happens on the outbound stream, and once it
\* has happened nothing more is delivered and the stream's end does not
\* change, whatever acts afterwards.
C2_NothingAfterTerminal == [][Terminated => subject' = subject]_vars

\* A Ping was handled after the run had terminated.
C2_Witness == Terminated /\ lastOp = "Ping" /\ pc = "running"

\* C3: a job body that returns the scalar v, having opened no channel and
\* logged nothing, with no inbound message delivered, yields exactly
\* [Start, Output(v), End] and then normal completion.
C3_ScalarSequence ==
    (result.kind = "scalar" /\ nIn = 0 /\ nBody = 0)
        => /\ out = <<StartMsg, OutputMsg(result.value), EndMsg>>
           /\ subject.status = "completed"

C3_Witness == result.kind = "scalar" /\ nIn = 0 /\ nBody = 0 /\ result.value = "v2"
\* The Start, Output and End messages of a sequence, in order.
Adapter(seq) == SelectSeq(seq, LAMBDA m : m.kind \in {"Start", "Output", "End"})

Outputs(values) == [i \in 1..Len(values) |-> OutputMsg(values[i])]

\* C4: a job body that returns a deferred value, with no Stop delivered:
\* resolved to v, the run is [Start, Output(v), End] and completes normally;
\* rejected with e, the run is [Start] and fails with e, without End.
C4_DeferredSequence ==
    (result.kind = "promise" /\ stops = 0) =>
        /\ promise = "pending" =>
              /\ Adapter(out) = <<StartMsg>>
              /\ subject.status = "open"
        /\ promise = "resolved" =>
              /\ Adapter(out) = <<StartMsg, OutputMsg(result.value), EndMsg>>
              /\ out[Len(out)] = EndMsg
              /\ subject.status = "completed"
              /\ (nIn = 0 /\ nBody = 0) =>
                     out = <<StartMsg, OutputMsg(result.value), EndMsg>>
        /\ promise = "rejected" =>
              /\ Adapter(out) = <<StartMsg>>
              /\ subject.status = "errored"
              /\ subject.thrownError = result.value
              /\ (nIn = 0 /\ nBody = 0) => out = <<StartMsg>>

C4_Witness ==
    /\ result.kind = "promise" /\ stops = 0 /\ promise = "rejected"
    /\ result.value = "e1" /\ nIn = 0 /\ nBody = 0

\* C5: a job body that returns a stream producing v1..vn and then completing,
\* with no Stop delivered: the Start, Output and End messages of the run are
\* [Start, Output(v1), ..., Output(vn), End] in production order (n = 0 gives
\* [Start, End]), End is the last message and the run completes normally.
C5_StreamSequence ==
    (result.kind = "stream" /\ stops = 0) =>
        /\ source = "active" =>
              /\ Adapter(out) = <<StartMsg>> \o Outputs(emitted)
              /\ subject.status = "open"
        /\ source = "completed" =>
              /\ Adapter(out) = <<StartMsg>> \o Outputs(emitted) \o <<EndMsg>>
              /\ out[Len(out)] = EndMsg
              /\ subject.status = "completed"

C5_Witness ==
    /\ result.kind = "stream" /\ stops = 0 /\ source = "completed"
    /\ emitted = <<"v2", "v1">>

\* A streaming job body is in flight: subscribed, neither completed nor
\* failed, the run not terminated.
StreamInFlight ==
    /\ result.kind = "stream"
    /\ streamSub = "open"
    /\ source = "active"
    /\ ~subject.isStopped

\* C6: when Stop is handled while a streaming job body is in flight, the
\* stream's subscription is released, End is the next outbound message, the
\* outbound stream completes normally, and nothing the stream produces
\* afterwards appears.
C6_StopPreemptsStream ==
    [][ /\ (lastOp' = "Stop" /\ StreamInFlight) =>
              /\ streamSub' = "closed"
              /\ subject'.out = Append(out, EndMsg)
              /\ subject'.status = "completed"
        /\ (result.kind = "stream" /\ stops > 0) => subject' = subject
      ]_vars

\* One value was delivered, Stop was handled, and the stream then produced a
\* second value.
C6_Witness ==
    /\ result.kind = "stream" /\ stops = 1 /\ lastOp = "StreamNext"
    /\ Len(emitted) = 2
    /\ out = <<StartMsg, OutputMsg(emitted[1]), EndMsg>>
\* The positions of message m in a sequence.
Positions(seq, m) == {i \in 1..Len(seq) : seq[i] = m}

\* C7: when Stop is handled while the run is running and channels are open,
\* every channel open at that moment gets a ChannelComplete{name} on the
\* outbound stream, before the End message.  (Stated as the claim states it;
\* the code emits End and completes the stream at lines 88-89 and completes
\* the channels at line 91, when the stream no longer delivers anything.)
C7_ChannelCompleteBeforeEnd ==
    [][ (lastOp' = "Stop" /\ pc = "running" /\ ~subject.isStopped) =>
            \A name \in OpenNames :
                \E i \in Positions(subject'.out, ChannelCompleteMsg(name)) :
                    \E j \in Positions(subject'.out, EndMsg) : i < j
      ]_vars

\* C8: after the terminal event of a run, whichever it is, the channels that
\* were open have been force-completed: the open-channel set is empty.
\* (Stated as the claim states it; the code completes the channels only in
\* the Stop case, line 91.)
C8_ChannelsClosedAtTerminal ==
    [][ (~Terminated /\ Terminated') => channels' = << >> ]_vars

\* The channel instances of a name that have been completed or have failed.
StoppedHandles(name) ==
    {id \in 1..Len(handles) : handles[id].name = name /\ handles[id].isStopped}

TeardownSignals(name) ==
    {i \in 1..Len(out) : /\ out[i].kind \in {"ChannelComplete", "ChannelError"}
                         /\ out[i].name = name}

\* C9 as stated: delivering Stop twice, with any events in between, produces
\* exactly one End, no channel gets more than one teardown signal, and the
\* second Stop changes neither the outbound sequence nor the open-channel set.
C9_StopIdempotentAsStated ==
    /\ [](stops >= 2 => CountKind(out, "End") = 1)
    /\ [](\A name \in Names :
             Cardinality(TeardownSignals(name)) <= Cardinality(StoppedHandles(name)))
    /\ [][ (lastOp' = "Stop" /\ stops >= 1) =>
               /\ subject'.out = out
               /\ channels' = channels ]_vars

\* C9 as amended: however many Stops are handled, the outbound sequence holds
\* at most one End, and exactly one unless the run had failed; no channel
\* instance gets more than one teardown signal; a second Stop changes nothing
\* on the outbound stream, and leaves no channel open (the only channels it
\* can find open are those the job body opened after the first Stop).
C9_StopIdempotent ==
    /\ [](CountKind(out, "End") <= 1)
    /\ [](stops >= 1 =>
             \/ subject.status = "completed" /\ CountKind(out, "End") = 1
             \/ subject.status = "errored" /\ CountKind(out, "End") = 0)
    /\ [](\A name \in Names :
             Cardinality(TeardownSignals(name)) <= Cardinality(StoppedHandles(name)))
    /\ [][ (lastOp' = "Stop" /\ stops >= 1) =>
               /\ subject' = subject
               /\ channels' = << >>
               /\ \A id \in 1..Len(handles) :
                     handles'[id].isStopped
                         = (handles[id].isStopped \/ ChannelsHas(channels, handles[id].name))
         ]_vars

\* Two Stops were handled in a run that had opened a channel.
C9_Witness ==
    /\ stops = 2 /\ lastOp = "Stop" /\ Len(handles) > 0
    /\ CountKind(out, "Start") = 1 /\ CountKind(out, "End") = 1

\* C10: when Stop is handled while a deferred result is pending, the outbound
\* stream ends with End and completes normally, and the later settlement is
\* discarded: no Output, no second End, no failure.
C10_StopDiscardsDeferred ==
    [][ /\ (lastOp' = "Stop" /\ promise = "pending" /\ ~subject.isStopped) =>
              /\ subject'.out = Append(out, EndMsg)
              /\ subject'.status = "completed"
        /\ (promise = "pending" /\ stops > 0 /\ promise' # "pending") =>
              /\ subject' = subject
              /\ subject.status = "completed"
              /\ out[Len(out)] = EndMsg
              /\ CountKind(out, "Output") = 0
      ]_vars

\* The promise was rejected after Stop had ended the run.
C10_Witness ==
    /\ promise = "rejected" /\ stops = 1 /\ lastOp = "PromiseReject"
    /\ Adapter(out) = <<StartMsg, EndMsg>>
\* C11: a run failure (fn throws, its promise rejects, its stream fails) ends
\* the outbound stream with that failure, after Start and the Outputs already
\* emitted; no End is emitted in that run, also when Stop is delivered after
\* the failure.
C11_FailureWithoutEnd ==
    /\ [](subject.status = "errored" =>
             /\ CountKind(out, "End") = 0
             /\ subject.thrownError = result.value
             /\ result.kind \in {"thrown", "promise"} => Adapter(out) = <<StartMsg>>
             /\ result.kind = "stream" => Adapter(out) = <<StartMsg>> \o Outputs(emitted))
    /\ [][ /\ (lastOp' \in {"BodyThrow", "PromiseReject", "StreamError"}
                  /\ ~subject.isStopped) =>
                 /\ subject'.status = "errored"
                 /\ subject'.thrownError = result'.value
                 /\ subject'.out = out
           /\ subject.status = "errored" => subject' = subject
         ]_vars

\* The stream failed after one Output, and a Stop was handled afterwards.
C11_Witness ==
    /\ subject.status = "errored" /\ result.kind = "stream"
    /\ lastOp = "Stop" /\ Len(emitted) = 1
\* The run is running: Start was emitted and no terminal event has happened.
Running == Started /\ ~Terminated /\ ~subject.isStopped

\* C12: every Ping{id} handled while the run is running yields exactly one
\* Pong{id} carrying the job description, appended to the outbound sequence
\* at once (so Pongs appear in the order of their Pings, whatever the job
\* body and the channels do in between); the Ping changes neither the state
\* of the run nor the open-channel set.  No other step emits a Pong.
C12_PingPong ==
    [][ /\ (lastOp' = "Ping" /\ Running) =>
              /\ subject'.out = Append(out, [kind |-> "Pong",
                                             description |-> description,
                                             id |-> lastArg'[1]])
              /\ subject'.isStopped = subject.isStopped
              /\ subject'.status = subject.status
              /\ <<pc, channels, handles, result, promise, streamSub, source>>'
                     = <<pc, channels, handles, result, promise, streamSub, source>>
        /\ lastOp' # "Ping" => CountKind(subject'.out, "Pong") = CountKind(out, "Pong")
      ]_vars

\* Two Pings with different ids were answered in order around an Output.
C12_Witness ==
    /\ lastOp = "Ping" /\ Running /\ Len(out) = 4
    /\ out[1] = StartMsg /\ out[2] = PongMsg(2)
    /\ out[3].kind = "Output" /\ out[4] = PongMsg(1)
\* The channel table holds exactly the channel instances that have neither
\* completed nor failed, one per name.
TableMatchesHandles ==
    /\ \A id \in 1..Len(handles) :
          ~handles[id].isStopped <=>
              \E i \in 1..Len(channels) :
                  channels[i] = [name |-> handles[id].name, id |-> id]
    /\ \A i, j \in 1..Len(channels) : channels[i].name = channels[j].name => i = j

\* The step was a call on the handle lastArg'[1] and that handle was open.
OnOpenHandle == ~handles[lastArg'[1]].isStopped

HandleName == handles[lastArg'[1]].name

\* C13: for every channel instance createChannel(name) makes: the values
\* pushed on its handle are forwarded as ChannelMessage{name, message} at
\* once (so in push order), its completion emits one ChannelComplete{name}
\* and takes the name out of the open set, createChannel(name) then succeeds
\* again with a fresh instance, and a push, completion or error on the old
\* handle emits nothing and leaves the table, the reopened channel included,
\* as it is.
C13_ChannelLifecycle ==
    /\ []TableMatchesHandles
    /\ [][ /\ lastOp' = "ChannelNext" =>
                 /\ subject'.out = IF OnOpenHandle /\ ~subject.isStopped
                                   THEN Append(out, ChannelMessageMsg(HandleName,
                                                                      lastArg'[2]))
                                   ELSE out
                 /\ channels' = channels /\ handles' = handles
           /\ (lastOp' = "ChannelComplete" /\ OnOpenHandle) =>
                 /\ subject'.out = IF ~subject.isStopped
                                   THEN Append(out, ChannelCompleteMsg(HandleName))
                                   ELSE out
                 /\ OpenNames' = OpenNames \ {HandleName}
                 /\ handles' = [handles EXCEPT ![lastArg'[1]].isStopped = TRUE]
           /\ (lastOp' \in {"ChannelNext", "ChannelComplete", "ChannelError"}
                  /\ ~OnOpenHandle) =>
                 /\ subject' = subject
                 /\ channels' = channels /\ handles' = handles
           /\ lastOp' \in {"ChannelNext", "ChannelComplete", "ChannelError"} =>
                 subject'.status = subject.status
           /\ (lastOp' \in {"createChannel", "createChannelThrow"}
                  /\ lastArg'[1] \notin OpenNames) =>
                 /\ lastOp' = "createChannel"
                 /\ handles' = Append(handles, [name |-> lastArg'[1],
                                                isStopped |-> FALSE])
                 /\ OpenNames' = OpenNames \cup {lastArg'[1]}
                 /\ subject' = subject
         ]_vars

\* Channel "a" was created, given m2 and m1, completed and created again; the
\* old handle was then completed once more.
C13_Witness ==
    /\ out = <<StartMsg, ChannelMessageMsg("a", "m2"), ChannelMessageMsg("a", "m1"),
               ChannelCompleteMsg("a")>>
    /\ Len(handles) = 2 /\ handles[2].name = "a"
    /\ OpenNames = {"a"}
    /\ lastOp = "ChannelComplete" /\ lastArg = <<1>>
\* C14: createChannel(name) with name in the open set throws
\* ChannelAlreadyExistException carrying that name, and it throws in no other
\* case; the call emits nothing, leaves the channel table and every channel
\* instance as they are, and the run goes on as before.
C14_CollisionThrows ==
    [][ /\ (lastOp' \in {"createChannel", "createChannelThrow"}
               /\ lastArg'[1] \in OpenNames) =>
              /\ lastOp' = "createChannelThrow"
              /\ lastArg'[2] = ChannelAlreadyExistException(lastArg'[1])
              /\ subject' = subject
              /\ channels' = channels /\ handles' = handles
              /\ pc' = pc /\ promise' = promise /\ streamSub' = streamSub
        /\ lastOp' = "createChannelThrow" => lastArg'[1] \in OpenNames
      ]_vars

\* createChannel("a") has just thrown: the one earlier instance of "a" is open.
C14_Witness ==
    /\ lastOp = "createChannelThrow"
    /\ lastArg = <<"a", ChannelAlreadyExistException("a")>>
    /\ Len(handles) = 1 /\ ~handles[1].isStopped
    /\ channels = <<[name |-> "a", id |-> 1]>>
    /\ Running
\* C15: an error signalled on an open channel's handle while the run is
\* running appends one ChannelError{name, error}, closes that instance and
\* takes its name out of the open set, and leaves the run running with its
\* job body's result still pending; no channel instance ever gets more than
\* one of ChannelError and ChannelComplete.
C15_ChannelErrorContained ==
    /\ [](\A name \in Names :
              Cardinality(TeardownSignals(name)) <= Cardinality(StoppedHandles(name)))
    /\ [][ (lastOp' = "ChannelError" /\ OnOpenHandle /\ Running) =>
              /\ subject'.out = Append(out, ChannelErrorMsg(HandleName, lastArg'[2]))
              /\ OpenNames' = OpenNames \ {HandleName}
              /\ handles' = [handles EXCEPT ![lastArg'[1]].isStopped = TRUE]
              /\ Running'
              /\ pc' = pc /\ promise' = promise /\ streamSub' = streamSub
              /\ result' = result
         ]_vars

\* Channel "a" failed during a deferred run, which then resolved and ended.
C15_Witness ==
    /\ out = <<StartMsg, ChannelErrorMsg("a", "e1"), OutputMsg("v1"), EndMsg>>
    /\ Len(handles) = 1 /\ handles[1].isStopped
    /\ OpenNames = {}
    /\ subject.status = "completed"
\* C16: an Input{value} message changes nothing but what the consumer of the
\* input source has received: the outbound subject, the state of the run and
\* the channel table stay as they are; an attached consumer gets the value
\* appended to what it received, a consumer attaching later never sees it,
\* and no other step changes what the consumer received.
C16_InputForwarded ==
    /\ [](~inputObs => received = << >>)
    /\ [][ /\ lastOp' = "Input" =>
                 /\ received' = IF inputObs THEN Append(received, lastArg'[1])
                                ELSE received
                 /\ subject' = subject
                 /\ channels' = channels /\ handles' = handles
                 /\ pc' = pc /\ promise' = promise /\ streamSub' = streamSub
                 /\ result' = result /\ inputObs' = inputObs
           /\ lastOp' # "Input" => received' = received
         ]_vars

\* Three Inputs were delivered to a started run, the first before the job body
\* attached to the input source, then v2 and v1.
C16_Witness ==
    /\ out = <<StartMsg>>
    /\ nIn = 3 /\ stops = 0
    /\ inputObs
    /\ received = <<"v2", "v1">>
    /\ lastOp = "Input"
\* C19: the first outbound message of a run is Start, whatever the kind of
\* the others (Pong and End included) and however early the inbound source
\* delivers a Ping or a Stop, and no inbound callback fails on the channel
\* table.
C19_StartFirstEvenEarly ==
    /\ out # << >> => out[1] = StartMsg
    /\ ~uncaught
\* The log entries that mirror a run: one per message, then one for its end.
MirrorOutbound(s) ==
    [i \in 1..Len(s.out) |-> LoggerInfo(<<"Message: ", JSONStringify(s.out[i])>>)]
    \o (IF s.status = "errored"
        THEN <<LoggerWarn(<<"Error: ", JSONStringify(s.thrownError)>>)>>
        ELSE IF s.status = "completed" THEN <<LoggerInfo(<<"Completed">>)>>
        ELSE << >>)

MirrorInbound(messages) ==
    [i \in 1..Len(messages) |-> LoggerInfo(<<"Input: ", JSONStringify(messages[i])>>)]

IsInboundEntry(entry) == entry.message[1] = "Input: "
IsOutboundEntry(entry) == ~IsInboundEntry(entry)

\* C17: what the subscriber of a createLoggerJob handler gets is what the
\* decorated job's run gives, messages and terminal event alike; the log
\* holds, in order, one entry per outbound message and one for the error or
\* the completion, and one entry per inbound message, and every inbound
\* message still reaches the subscribed job.
C17_LoggerTransparent ==
    /\ [](outer = job)
    /\ [](SelectSeq(log, IsOutboundEntry) = MirrorOutbound(job))
    /\ [](SelectSeq(log, IsInboundEntry) = MirrorInbound(bus))
    /\ [][ (lastOp' = "LoggerInbound" /\ jobpc = "subscribed") =>
              delivered' = Append(delivered, lastArg'[1]) ]_vars

\* A Ping went by before the subscription and a Stop after it, to a job that
\* gave Start and End and completed.
C17_Witness ==
    /\ log = <<LoggerInfo(<<"Input: ", JSONStringify(PingMsg(1))>>),
               LoggerInfo(<<"Message: ", JSONStringify(StartMsg)>>),
               LoggerInfo(<<"Input: ", JSONStringify(StopMsg)>>),
               LoggerInfo(<<"Message: ", JSONStringify(EndMsg)>>),
               LoggerInfo(<<"Completed">>)>>
    /\ outer.out = <<StartMsg, EndMsg>> /\ outer.status = "completed"
    /\ delivered = <<StopMsg>>
\* C18: a createJobFactory handler has called the loader exactly once from
\* its call on; its subscriber gets nothing before the loaded handler runs
\* and from then on exactly what that handler's run gives, terminal event
\* included; a rejection of the loader's promise fails the run with the
\* rejection's error and without any message, and no handler is run.
C18_FactoryDelegates ==
    /\ [](loaderCalls = IF wpc = "made" THEN 0 ELSE 1)
    /\ [](jobpc = "subscribed" => (loader.state = "resolved" /\ outer = job))
    /\ [](jobpc = "none" => outer.out = << >>)
    /\ [][ lastOp' = "FactoryFailed" =>
              /\ outer'.out = << >>
              /\ outer'.status = "errored"
              /\ outer'.thrownError = loader.error
              /\ jobpc' = "none" ]_vars
    /\ [](loader.state = "rejected" => jobpc = "none")

\* The loader was called once and the loaded handler ran a whole scalar run.
C18_Witness ==
    /\ loaderCalls = 1
    /\ jobpc = "subscribed"
    /\ outer.out = <<StartMsg, OutputMsg("v1"), EndMsg>>
    /\ outer.status = "completed"
RunOut(r) == runs[r].subject.out
RunLive(r) == runs[r].pc = "running" /\ ~runs[r].subject.isStopped

\* With two subscriptions, a Stop ends every run that is still going with one
\* End of its own and releases that run's own stream subscription: the run
\* that lost the handler call's `subscription` variable to the later one is
\* released by the teardown of line 166.
TwoRunsStopEndsBoth ==
    /\ [](\A r \in Runs :
             /\ CountKind(RunOut(r), "End") <= 1
             /\ runs[r].subject.isStopped => runs[r].streamSub = "closed")
    /\ [][ lastOp' = "Stop" =>
              \A r \in Runs :
                  RunLive(r) =>
                      /\ runs'[r].subject.out = Append(RunOut(r), EndMsg)
                      /\ runs'[r].subject.status = "completed"
                      /\ runs'[r].streamSub = "closed" ]_vars

\* Both runs were going when Stop came: each has its own End and no open
\* stream subscription.
TwoRunsStopped ==
    /\ lastOp = "Stop"
    /\ \A r \in Runs : /\ RunOut(r) = <<StartMsg, EndMsg>>
                       /\ runs[r].streamSub = "closed"

\* C20: each subscription to the Observable of one handler call is a run of
\* its own: a Stop ends every run that is going with one End of its own and
\* releases its stream subscription, a stream's notification and a new
\* subscription leave the other run as it is, and an Input reaches the job
\* body of each run once, as it does in a single run.
C20_IndependentRuns ==
    /\ TwoRunsStopEndsBoth
    /\ [][ \A r \in Runs :
              /\ (lastOp' \in {"StreamNext", "StreamComplete", "StreamError",
                               "Subscribe"} /\ lastArg'[1] # r) =>
                     runs'[r] = runs[r]
              /\ (lastOp' = "Input" /\ runs[r].attached) =>
                     runs'[r].received = Append(runs[r].received, lastArg'[1])
         ]_vars
====
